---- MODULE Spec2Model ----
(***************************************************************************)
(* PDF text extraction scripts: the Unicode clean-up pass of               *)
(* extract_pdf_text.py and the three extraction entry points               *)
(* (extract_pdf_text.py, services/pdf_extractor.py,                        *)
(* services/pymupdf_extractor.py).                                         *)
(*                                                                         *)
(* Text is a sequence of Unicode code points (Python str).                 *)
(***************************************************************************)
EXTENDS Integers, Sequences, FiniteSets, TLC

(***************************************************************************)
(* Bounds of the model.                                                    *)
(***************************************************************************)
\* longest input string handed to clean_unicode_text
MaxLen == 3
\* largest number of pages of a document
MaxPages == 2

\* Code points the input strings of the normalizer are drawn from: every key
\* of the replacement table, ASCII, Latin-1, a C1 control, and characters of
\* every branch of the per-character pass.
Chars ==
  { 10, 32, 65,            \* LF, space, 'A'
    133,                   \* U+0085 NEXT LINE (Cc, between 128 and 159)
    160, 176, 233,         \* NBSP (table key), degree sign, e-acute
    257,                   \* U+0101 a-macron: 'a' + U+0304
    730,                   \* U+02DA ring above (table key)
    8211, 8212,            \* en dash, em dash (table keys)
    8216,                  \* U+2018 left single quote (not a key)
    8217, 8220, 8221,      \* right single, left/right double quotes (keys)
    8230,                  \* U+2026 ellipsis: '...'
    8203,                  \* U+200B zero width space (Cf)
    8486,                  \* U+2126 ohm sign: U+03A9
    8490,                  \* U+212A kelvin sign: 'K'
    9312,                  \* U+2460 circled digit one (No): '1'
    20013,                 \* U+4E2D CJK ideograph (Lo, no decomposition)
    57344,                 \* U+E000 private use (Co, not a key)
    61572, 61616,          \* U+F084, U+F0B0 private use (table keys)
    65505,                 \* U+FFE1 fullwidth pound: U+00A3
    65507 }                \* U+FFE3 fullwidth macron: ' ' + U+0304

RECURSIVE SeqsUpTo(_, _)
\* all sequences over S of length at most n
SeqsUpTo(S, n) ==
  IF n = 0 THEN { <<>> }
  ELSE LET shorter == SeqsUpTo(S, n - 1)
       IN  shorter \cup { Append(s, c) : s \in { t \in shorter : Len(t) = n - 1 }, c \in S }

(***************************************************************************)
(* Python library functions used by the scripts.                           *)
(***************************************************************************)
\* unicodedata.category(char), for the code points of Chars and of their
\* decompositions (Unicode 14)
category(c) ==
  CASE c \in {10, 133} -> "Cc"
    [] c \in {32, 160} -> "Zs"
    [] c = 49 -> "Nd"
    [] c = 9312 -> "No"
    [] c \in {46, 8230} -> "Po"
    [] c \in {65, 75, 937, 8486, 8490} -> "Lu"
    [] c \in {97, 101, 233, 257} -> "Ll"
    [] c \in {163, 65505} -> "Sc"
    [] c = 176 -> "So"
    [] c \in {730, 65507} -> "Sk"
    [] c \in {769, 772, 778} -> "Mn"
    [] c = 8203 -> "Cf"
    [] c \in {8211, 8212} -> "Pd"
    [] c \in {8216, 8220} -> "Pi"
    [] c \in {8217, 8221} -> "Pf"
    [] c = 20013 -> "Lo"
    [] c \in {57344, 61572, 61616} -> "Co"

\* first letter of a category name: category(char)[0]
major(cat) ==
  CASE cat \in {"Lu", "Ll", "Lo"} -> "L"
    [] cat \in {"Po", "Pd", "Pi", "Pf"} -> "P"
    [] cat \in {"Sc", "So", "Sk"} -> "S"
    [] cat = "Zs" -> "Z"
    [] cat \in {"Nd", "No"} -> "N"
    [] cat = "Mn" -> "M"
    [] cat \in {"Cc", "Cf", "Co"} -> "C"

\* unicodedata.normalize('NFKD', char) of one character
NFKD(c) ==
  CASE c = 160 -> <<32>>
    [] c = 233 -> <<101, 769>>
    [] c = 257 -> <<97, 772>>
    [] c = 730 -> <<32, 778>>
    [] c = 8230 -> <<46, 46, 46>>
    [] c = 8486 -> <<937>>
    [] c = 8490 -> <<75>>
    [] c = 9312 -> <<49>>
    [] c = 65505 -> <<163>>
    [] c = 65507 -> <<32, 772>>
    [] OTHER -> <<c>>

\* s.encode('ascii', 'ignore').decode('ascii'): drop every non-ASCII code point
encode_ascii_ignore(s) == SelectSeq(s, LAMBDA c : c < 128)

\* the characters str.strip() removes (str.isspace)
isspace(c) ==
  c \in (9..13) \cup (28..32) \cup {133, 160, 5760} \cup (8192..8202)
        \cup {8232, 8233, 8239, 8287, 12288}

RECURSIVE lstrip(_)
lstrip(s) == IF s # <<>> /\ isspace(Head(s)) THEN lstrip(Tail(s)) ELSE s

RECURSIVE rstrip(_)
rstrip(s) ==
  IF s # <<>> /\ isspace(s[Len(s)]) THEN rstrip(SubSeq(s, 1, Len(s) - 1)) ELSE s

\* str.strip()
strip(s) == rstrip(lstrip(s))

RECURSIVE str_replace(_, _, _)
\* text.replace(old_char, new_char) for a one-character old_char
str_replace(text, old, new) ==
  IF text = <<>> THEN <<>>
  ELSE (IF Head(text) = old THEN new ELSE <<Head(text)>>)
         \o str_replace(Tail(text), old, new)

RECURSIVE join(_, _)
\* sep.join(parts)
join(sep, parts) ==
  IF parts = <<>> THEN <<>>
  ELSE IF Len(parts) = 1 THEN parts[1]
  ELSE parts[1] \o sep \o join(sep, Tail(parts))

\* str(n) for the page numbers of the model
str_int(n) == <<48 + n>>

(***************************************************************************)
(* extract_pdf_text.py: clean_unicode_text                                 *)
(***************************************************************************)
\* replacements with the em dash mapped to an en dash instead of a hyphen
replacements_chained ==
  << <<61572, <<32>> >>,
     <<730,   <<176>> >>,
     <<61616, <<176>> >>,
     <<8217,  <<39>> >>,
     <<8220,  <<34>> >>,
     <<8221,  <<34>> >>,
     <<8211,  <<45>> >>,
     <<8212,  <<8211>> >>,
     <<160,   <<32>> >> >>

\* the replacements dict, in insertion order (the order the loop applies it)
replacements ==
  << <<61572, <<32>> >>,    \* U+F084 -> ' '
     <<730,   <<176>> >>,   \* U+02DA -> degree sign
     <<61616, <<176>> >>,   \* U+F0B0 -> degree sign
     <<8217,  <<39>> >>,    \* U+2019 -> '
     <<8220,  <<34>> >>,    \* U+201C -> "
     <<8221,  <<34>> >>,    \* U+201D -> "
     <<8211,  <<45>> >>,    \* U+2013 -> -
     <<8212,  <<45>> >>,    \* U+2014 -> -
     <<160,   <<32>> >> >>  \* U+00A0 -> ' '

RECURSIVE apply_replacements(_, _)
\* for old_char, new_char in table: text = text.replace(old_char, new_char)
apply_replacements(text, table) ==
  IF table = <<>> THEN text
  ELSE apply_replacements(str_replace(text, table[1][1], table[1][2]), Tail(table))

\* clean_char with the extended range starting at 128 instead of 160
clean_char_from_128(char) ==
  IF char < 128 THEN <<char>>
  ELSE IF char \in 128..255 THEN <<char>>
  ELSE IF major(category(char)) \in {"L", "N", "P", "S", "Z"}
       THEN LET normalized == NFKD(char)
            IN  IF Len(normalized) = 1 /\ normalized[1] < 256
                THEN normalized
                ELSE LET ascii_equiv == encode_ascii_ignore(NFKD(char))
                     IN  IF ascii_equiv # <<>> THEN ascii_equiv ELSE <<32>>
       ELSE <<32>>

\* clean_char appending the decomposition without the ASCII encode step
clean_char_no_encode(char) ==
  IF char < 128 THEN <<char>>
  ELSE IF char \in 160..255 THEN <<char>>
  ELSE IF major(category(char)) \in {"L", "N", "P", "S", "Z"}
       THEN LET normalized == NFKD(char)
            IN  IF Len(normalized) = 1 /\ normalized[1] < 256
                THEN normalized
                ELSE LET ascii_equiv == NFKD(char)
                     IN  IF ascii_equiv # <<>> THEN ascii_equiv ELSE <<32>>
       ELSE <<32>>

\* clean_char with symbols missing from the category list
clean_char_no_symbols(char) ==
  IF char < 128 THEN <<char>>
  ELSE IF char \in 160..255 THEN <<char>>
  ELSE IF major(category(char)) \in {"L", "N", "P", "Z"}
       THEN LET normalized == NFKD(char)
            IN  IF Len(normalized) = 1 /\ normalized[1] < 256
                THEN normalized
                ELSE LET ascii_equiv == encode_ascii_ignore(NFKD(char))
                     IN  IF ascii_equiv # <<>> THEN ascii_equiv ELSE <<32>>
       ELSE <<32>>

\* body of the per-character loop: what one character appends to cleaned_chars
\* (unicodedata.normalize does not raise on a one-character str, so the bare
\* except of the loop has no case of its own)
clean_char(char) ==
  IF char < 128 THEN <<char>>
  ELSE IF char \in 160..255 THEN <<char>>
  ELSE IF major(category(char)) \in {"L", "N", "P", "S", "Z"}
       THEN LET normalized == NFKD(char)
            IN  IF Len(normalized) = 1 /\ normalized[1] < 256
                THEN normalized
                ELSE LET ascii_equiv == encode_ascii_ignore(NFKD(char))
                     IN  IF ascii_equiv # <<>> THEN ascii_equiv ELSE <<32>>
       ELSE <<32>>

RECURSIVE clean_chars(_)
\* for char in text: ...; ''.join(cleaned_chars)
clean_chars(text) ==
  IF text = <<>> THEN <<>> ELSE clean_char(Head(text)) \o clean_chars(Tail(text))

\* clean_unicode_text with the table given
clean_with(text, table) == clean_chars(apply_replacements(text, table))

clean_unicode_text(text) == clean_with(text, replacements)

(***************************************************************************)
(* Inputs of the extraction scripts                                        *)
(***************************************************************************)
\* most command-line arguments after the program name
MaxArgs == 2

\* "a.pdf", "b.pdf"
Paths == { <<97, 46, 112, 100, 102>>, <<98, 46, 112, 100, 102>> }

\* page.get_text() results: empty, blank, "Hello", e-acute, U+2019 + LF
PageTexts ==
  { <<>>, <<32>>, <<72, 101, 108, 108, 111>>, <<233>>, <<8217, 10>> }

\* doc.metadata mappings
DocMetas == { <<>>, [title |-> "T", author |-> "A"] }

\* str(e) of the exceptions the collaborator raises: "" and "bad"
ExcMessages == { <<>>, <<98, 97, 100>> }

\* Path(pdf_path).stat().st_size
FileSizes == { 4096 }

\* datetime.now().isoformat()
Times == { "2024-01-01T00:00:00" }

\* the message of the exception fitz.open raises for a missing file
no_such_file(path) ==
  <<110, 111, 32, 115, 117, 99, 104, 32, 102, 105, 108, 101, 58, 32>> \o path

\* Python's None, and the result variable before the function returns
None == "None"
NoResult == [pending |-> TRUE]

\* dict.get(key, "")
get(d, key) == IF key \in DOMAIN d THEN d[key] ELSE ""

(***************************************************************************)
(* State                                                                   *)
(***************************************************************************)
VARIABLES
  text,          \* clean_unicode_text: the argument
  cleaned,       \* clean_unicode_text(text)
  recleaned,     \* clean_unicode_text(cleaned)
  npc,           \* "input" -> "cleaned" -> "recleaned"
  variant,       \* the script that runs
  args,          \* sys.argv[1:]
  fs,            \* the paths that exist on disk
  doc_pages,     \* the text of each page of the document on disk
  doc_meta,      \* the document's metadata mapping
  pc,            \* "start", "extract", "opened", "loop", "returned", "exit"
  pdf_path,      \* the argument of the extraction function
  handle,        \* doc: "none", "open", "closed"
  open_calls,    \* number of fitz.open calls
  extract_calls, \* number of calls of the extraction function
  page_num,      \* loop variable
  full_text,     \* accumulated text (JSON variants)
  page_texts,    \* accumulated per-page entries (JSON variants)
  text_parts,    \* accumulated parts (extract_pdf_text.py)
  metadata,      \* pymupdf_extractor: the metadata dict
  result,        \* what the extraction function returned
  raised,        \* the call that raised ("none" if none did) and its message
  exit_code,     \* process exit code, -1 while running
  stdout,        \* what was printed to standard output
  stderr         \* what was printed to standard error

nvars == <<text, cleaned, recleaned, npc>>

evars == <<variant, args, fs, doc_pages, doc_meta, pc, pdf_path, handle,
           open_calls, extract_calls, page_num, full_text, page_texts,
           text_parts, metadata, result, raised, exit_code, stdout, stderr>>

vars == <<nvars, evars>>

\* the inputs of a run, which no step changes
inputs == <<variant, args, fs, doc_pages, doc_meta>>

\* the locals of the extraction function
locals == <<page_num, full_text, page_texts, text_parts, metadata>>

NIdle ==
  /\ text = <<>>
  /\ cleaned = <<>>
  /\ recleaned = <<>>
  /\ npc = "idle"

EStart ==
  /\ pc = "start"
  /\ pdf_path = <<>>
  /\ handle = "none"
  /\ open_calls = 0
  /\ extract_calls = 0
  /\ page_num = 0
  /\ full_text = <<>>
  /\ page_texts = <<>>
  /\ text_parts = <<>>
  /\ metadata = <<>>
  /\ result = NoResult
  /\ raised = [at |-> "none", msg |-> <<>>]
  /\ exit_code = -1
  /\ stdout = <<>>
  /\ stderr = <<>>

NInit ==
  /\ text \in SeqsUpTo(Chars, MaxLen)
  /\ cleaned = <<>>
  /\ recleaned = <<>>
  /\ npc = "input"
  /\ variant = "none"
  /\ args = <<>>
  /\ fs = {}
  /\ doc_pages = <<>>
  /\ doc_meta = <<>>
  /\ EStart

\* cleaned_text = clean_unicode_text(text)
Clean ==
  /\ npc = "input"
  /\ cleaned' = clean_unicode_text(text)
  /\ npc' = "cleaned"
  /\ UNCHANGED <<text, recleaned>>
  /\ UNCHANGED evars

\* the cleaned text is cleaned again
Reclean ==
  /\ npc = "cleaned"
  /\ recleaned' = clean_unicode_text(cleaned)
  /\ npc' = "recleaned"
  /\ UNCHANGED <<text, cleaned>>
  /\ UNCHANGED evars

NNext == Clean \/ Reclean

SpecClean == NInit /\ [][NNext]_vars

(***************************************************************************)
(* services/pymupdf_extractor.py                                           *)
(***************************************************************************)
\* the except branch returning what was collected before the failure
pymupdf_failure_partial(msg) ==
  [success |-> FALSE, error |-> msg, text |-> full_text, metadata |-> <<>>,
   pages |-> page_texts]

\* the except branch of extract_text_from_pdf
pymupdf_failure(msg) ==
  [success |-> FALSE, error |-> msg, text |-> <<>>, metadata |-> <<>>,
   pages |-> <<>>]

\* main: the argument check, then the call
pymupdf_main_args ==
  /\ variant = "pymupdf_extractor" /\ pc = "start"
  /\ IF Len(args) + 1 < 2
     THEN /\ stdout' = Append(stdout, [success |-> FALSE, error |-> "Usage"])
          /\ exit_code' = 1
          /\ pc' = "exit"
          /\ UNCHANGED <<pdf_path, extract_calls>>
     ELSE /\ pdf_path' = args[1]
          /\ extract_calls' = extract_calls + 1
          /\ pc' = "extract"
          /\ UNCHANGED <<stdout, exit_code>>
  /\ UNCHANGED <<inputs, locals, handle, open_calls, result, raised, stderr>>
  /\ UNCHANGED nvars

\* extract_text_from_pdf without the os.path.exists check
pymupdf_extract_open_no_check ==
  /\ variant = "pymupdf_extractor" /\ pc = "extract"
  /\ IF FALSE
     THEN /\ result' = [success |-> FALSE,
                        error |-> <<70, 105, 108, 101, 32, 110, 111, 116, 32,
                                    102, 111, 117, 110, 100, 58, 32>> \o pdf_path,
                        text |-> <<>>, metadata |-> <<>>]
          /\ pc' = "returned"
          /\ UNCHANGED <<handle, open_calls, raised>>
     ELSE /\ open_calls' = open_calls + 1
          /\ \/ /\ handle' = "open"
                /\ pc' = "opened"
                /\ UNCHANGED <<result, raised>>
             \/ \E msg \in ExcMessages :
                  /\ raised' = [at |-> "open", msg |-> msg]
                  /\ result' = pymupdf_failure(msg)
                  /\ pc' = "returned"
                  /\ UNCHANGED handle
  /\ UNCHANGED <<inputs, locals, pdf_path, extract_calls, exit_code, stdout, stderr>>
  /\ UNCHANGED nvars

\* extract_text_from_pdf: os.path.exists, then fitz.open
pymupdf_extract_open ==
  /\ variant = "pymupdf_extractor" /\ pc = "extract"
  /\ IF pdf_path \notin fs
     THEN /\ result' = [success |-> FALSE,
                        error |-> <<70, 105, 108, 101, 32, 110, 111, 116, 32,
                                    102, 111, 117, 110, 100, 58, 32>> \o pdf_path,
                        text |-> <<>>, metadata |-> <<>>]
          /\ pc' = "returned"
          /\ UNCHANGED <<handle, open_calls, raised>>
     ELSE /\ open_calls' = open_calls + 1
          /\ \/ /\ handle' = "open"
                /\ pc' = "opened"
                /\ UNCHANGED <<result, raised>>
             \/ \E msg \in ExcMessages :
                  /\ raised' = [at |-> "open", msg |-> msg]
                  /\ result' = pymupdf_failure(msg)
                  /\ pc' = "returned"
                  /\ UNCHANGED handle
  /\ UNCHANGED <<inputs, locals, pdf_path, extract_calls, exit_code, stdout, stderr>>
  /\ UNCHANGED nvars

\* the metadata dict, then the start of the page loop
pymupdf_extract_metadata ==
  /\ variant = "pymupdf_extractor" /\ pc = "opened"
  /\ \/ \E now \in Times :
          /\ metadata' = [title |-> get(doc_meta, "title"),
                          author |-> get(doc_meta, "author"),
                          subject |-> get(doc_meta, "subject"),
                          creator |-> get(doc_meta, "creator"),
                          producer |-> get(doc_meta, "producer"),
                          creationDate |-> get(doc_meta, "creationDate"),
                          modDate |-> get(doc_meta, "modDate"),
                          pageCount |-> Len(doc_pages),
                          extractionMethod |-> "PyMuPDF",
                          extractionTime |-> now]
          /\ full_text' = <<>>
          /\ page_texts' = <<>>
          /\ page_num' = 0
          /\ pc' = "loop"
          /\ UNCHANGED <<result, raised>>
     \/ \E msg \in ExcMessages, at \in {"metadata", "page_count"} :
          /\ raised' = [at |-> at, msg |-> msg]
          /\ result' = pymupdf_failure(msg)
          /\ pc' = "returned"
          /\ UNCHANGED <<metadata, full_text, page_texts, page_num>>
  /\ UNCHANGED <<inputs, text_parts, pdf_path, handle, open_calls,
                 extract_calls, exit_code, stdout, stderr>>
  /\ UNCHANGED nvars

\* one iteration of the page loop
pymupdf_extract_page ==
  /\ variant = "pymupdf_extractor" /\ pc = "loop"
  /\ page_num < Len(doc_pages)
  /\ \/ LET page_text == doc_pages[page_num + 1]
        IN  /\ page_texts' = Append(page_texts,
                               [pageNumber |-> page_num + 1, text |-> page_text,
                                charCount |-> Len(page_text)])
            /\ full_text' = full_text
                  \o (<<10, 61, 61, 61, 32, 80, 65, 71, 69, 32>>
                        \o str_int(page_num + 1) \o <<32, 61, 61, 61, 10>>)
                  \o page_text
                  \o <<10>>
            /\ page_num' = page_num + 1
            /\ UNCHANGED <<pc, result, raised>>
     \/ \E msg \in ExcMessages, at \in {"load_page", "get_text"} :
          /\ raised' = [at |-> at, msg |-> msg]
          /\ result' = pymupdf_failure(msg)
          /\ pc' = "returned"
          /\ UNCHANGED <<page_texts, full_text, page_num>>
  /\ UNCHANGED <<inputs, text_parts, metadata, pdf_path, handle, open_calls,
                 extract_calls, exit_code, stdout, stderr>>
  /\ UNCHANGED nvars

\* the end of extract_text_from_pdf without the strip
pymupdf_extract_finish_no_strip ==
  /\ variant = "pymupdf_extractor" /\ pc = "loop"
  /\ page_num = Len(doc_pages)
  /\ handle' = "closed"
  /\ LET clean_text == encode_ascii_ignore(full_text)
     IN  result' = [success |-> TRUE, error |-> None, text |-> clean_text,
                    metadata |-> metadata, pages |-> page_texts,
                    totalCharacters |-> Len(clean_text),
                    processingTime |-> "local"]
  /\ pc' = "returned"
  /\ UNCHANGED <<inputs, locals, pdf_path, open_calls, extract_calls, raised,
                 exit_code, stdout, stderr>>
  /\ UNCHANGED nvars

\* after the loop: doc.close(), strip, ASCII filter, the success result
pymupdf_extract_finish ==
  /\ variant = "pymupdf_extractor" /\ pc = "loop"
  /\ page_num = Len(doc_pages)
  /\ handle' = "closed"
  /\ LET clean_text == encode_ascii_ignore(strip(full_text))
     IN  result' = [success |-> TRUE, error |-> None, text |-> clean_text,
                    metadata |-> metadata, pages |-> page_texts,
                    totalCharacters |-> Len(clean_text),
                    processingTime |-> "local"]
  /\ pc' = "returned"
  /\ UNCHANGED <<inputs, locals, pdf_path, open_calls, extract_calls, raised,
                 exit_code, stdout, stderr>>
  /\ UNCHANGED nvars

\* main: print(json.dumps(result)), then the script ends
pymupdf_main_print ==
  /\ variant = "pymupdf_extractor" /\ pc = "returned"
  /\ stdout' = Append(stdout, result)
  /\ exit_code' = 0
  /\ pc' = "exit"
  /\ UNCHANGED <<inputs, locals, pdf_path, handle, open_calls, extract_calls,
                 result, raised, stderr>>
  /\ UNCHANGED nvars

(***************************************************************************)
(* services/pdf_extractor.py                                               *)
(***************************************************************************)
\* the except branch of extract_pdf_text
pdfx_failure(msg) ==
  [success |-> FALSE,
   error |-> <<80, 68, 70, 32, 101, 120, 116, 114, 97, 99, 116, 105, 111, 110,
               32, 102, 97, 105, 108, 101, 100, 58, 32>> \o msg,
   text |-> <<>>, metadata |-> <<>>]

\* __main__: the argument check, then the call
pdfx_main_args ==
  /\ variant = "pdf_extractor" /\ pc = "start"
  /\ IF Len(args) + 1 # 2
     THEN /\ stdout' = Append(stdout, [success |-> FALSE, error |-> "Usage",
                                        text |-> <<>>, metadata |-> <<>>])
          /\ exit_code' = 1
          /\ pc' = "exit"
          /\ UNCHANGED <<pdf_path, extract_calls>>
     ELSE /\ pdf_path' = args[1]
          /\ extract_calls' = extract_calls + 1
          /\ pc' = "extract"
          /\ UNCHANGED <<stdout, exit_code>>
  /\ UNCHANGED <<inputs, locals, handle, open_calls, result, raised, stderr>>
  /\ UNCHANGED nvars

\* extract_pdf_text: Path.exists, fitz.open, then the start of the page loop
pdfx_extract_open ==
  /\ variant = "pdf_extractor" /\ pc = "extract"
  /\ IF pdf_path \notin fs
     THEN /\ result' = [success |-> FALSE,
                        error |-> <<70, 105, 108, 101, 32, 110, 111, 116, 32,
                                    102, 111, 117, 110, 100, 58, 32>> \o pdf_path,
                        text |-> <<>>, metadata |-> <<>>]
          /\ pc' = "returned"
          /\ UNCHANGED <<handle, open_calls, raised, full_text, page_texts, page_num>>
     ELSE /\ open_calls' = open_calls + 1
          /\ \/ /\ handle' = "open"
                /\ full_text' = <<>>
                /\ page_texts' = <<>>
                /\ page_num' = 0
                /\ pc' = "loop"
                /\ UNCHANGED <<result, raised>>
             \/ \E msg \in ExcMessages :
                  /\ raised' = [at |-> "open", msg |-> msg]
                  /\ result' = pdfx_failure(msg)
                  /\ pc' = "returned"
                  /\ UNCHANGED <<handle, full_text, page_texts, page_num>>
             \/ \E msg \in ExcMessages :
                  /\ handle' = "open"
                  /\ raised' = [at |-> "page_count", msg |-> msg]
                  /\ result' = pdfx_failure(msg)
                  /\ pc' = "returned"
                  /\ UNCHANGED <<full_text, page_texts, page_num>>
  /\ UNCHANGED <<inputs, text_parts, metadata, pdf_path, extract_calls,
                 exit_code, stdout, stderr>>
  /\ UNCHANGED nvars

\* one iteration of the page loop
pdfx_extract_page ==
  /\ variant = "pdf_extractor" /\ pc = "loop"
  /\ page_num < Len(doc_pages)
  /\ \/ LET page_text == doc_pages[page_num + 1]
        IN  /\ page_texts' = Append(page_texts, page_text)
            /\ full_text' = full_text \o page_text \o <<10>>
            /\ page_num' = page_num + 1
            /\ UNCHANGED <<pc, result, raised>>
     \/ \E msg \in ExcMessages, at \in {"load_page", "get_text"} :
          /\ raised' = [at |-> at, msg |-> msg]
          /\ result' = pdfx_failure(msg)
          /\ pc' = "returned"
          /\ UNCHANGED <<page_texts, full_text, page_num>>
  /\ UNCHANGED <<inputs, text_parts, metadata, pdf_path, handle, open_calls,
                 extract_calls, exit_code, stdout, stderr>>
  /\ UNCHANGED nvars

\* after the loop: the file size, the success result, doc.close()
pdfx_extract_finish ==
  /\ variant = "pdf_extractor" /\ pc = "loop"
  /\ page_num = Len(doc_pages)
  /\ \/ \E file_size \in FileSizes :
          /\ result' = [success |-> TRUE,
                        text |-> strip(full_text),
                        totalCharacters |-> Len(strip(full_text)),
                        metadata |-> [pageCount |-> Len(doc_pages),
                                      fileSize |-> file_size,
                                      extractionMethod |-> "PyMuPDF-Python",
                                      extractionTime |-> "",
                                      pages |-> page_texts]]
          /\ handle' = "closed"
          /\ UNCHANGED raised
     \/ \E msg \in ExcMessages, at \in {"stat", "page_count"} :
          /\ raised' = [at |-> at, msg |-> msg]
          /\ result' = pdfx_failure(msg)
          /\ UNCHANGED handle
  /\ pc' = "returned"
  /\ UNCHANGED <<inputs, locals, pdf_path, open_calls, extract_calls,
                 exit_code, stdout, stderr>>
  /\ UNCHANGED nvars

\* __main__: print(json.dumps(result)), then the script ends
pdfx_main_print ==
  /\ variant = "pdf_extractor" /\ pc = "returned"
  /\ stdout' = Append(stdout, result)
  /\ exit_code' = 0
  /\ pc' = "exit"
  /\ UNCHANGED <<inputs, locals, pdf_path, handle, open_calls, extract_calls,
                 result, raised, stderr>>
  /\ UNCHANGED nvars

(***************************************************************************)
(* extract_pdf_text.py                                                     *)
(***************************************************************************)
\* the except branch of extract_pdf_text: the message printed, "" returned
txt_error_line(msg) ==
  <<69, 114, 114, 111, 114, 32, 101, 120, 116, 114, 97, 99, 116, 105, 110,
    103, 32, 80, 68, 70, 58, 32>> \o msg

\* __main__: the argument check, then the call
txt_main_args ==
  /\ variant = "extract_pdf_text" /\ pc = "start"
  /\ IF Len(args) + 1 # 2
     THEN /\ stderr' = Append(stderr, "Usage")
          /\ exit_code' = 1
          /\ pc' = "exit"
          /\ UNCHANGED <<pdf_path, extract_calls>>
     ELSE /\ pdf_path' = args[1]
          /\ extract_calls' = extract_calls + 1
          /\ pc' = "extract"
          /\ UNCHANGED <<stderr, exit_code>>
  /\ UNCHANGED <<inputs, locals, handle, open_calls, result, raised, stdout>>
  /\ UNCHANGED nvars

\* extract_pdf_text: fitz.open, then the start of the page loop
txt_extract_open ==
  /\ variant = "extract_pdf_text" /\ pc = "extract"
  /\ open_calls' = open_calls + 1
  /\ IF pdf_path \notin fs
     THEN /\ raised' = [at |-> "open", msg |-> no_such_file(pdf_path)]
          /\ stderr' = Append(stderr, txt_error_line(no_such_file(pdf_path)))
          /\ result' = [text |-> <<>>]
          /\ pc' = "returned"
          /\ UNCHANGED <<handle, text_parts, page_num>>
     ELSE \/ /\ handle' = "open"
             /\ text_parts' = <<>>
             /\ page_num' = 0
             /\ pc' = "loop"
             /\ UNCHANGED <<result, raised, stderr>>
          \/ \E msg \in ExcMessages :
               /\ raised' = [at |-> "open", msg |-> msg]
               /\ stderr' = Append(stderr, txt_error_line(msg))
               /\ result' = [text |-> <<>>]
               /\ pc' = "returned"
               /\ UNCHANGED <<handle, text_parts, page_num>>
          \/ \E msg \in ExcMessages :
               /\ handle' = "open"
               /\ raised' = [at |-> "page_count", msg |-> msg]
               /\ stderr' = Append(stderr, txt_error_line(msg))
               /\ result' = [text |-> <<>>]
               /\ pc' = "returned"
               /\ UNCHANGED <<text_parts, page_num>>
  /\ UNCHANGED <<inputs, full_text, page_texts, metadata, pdf_path,
                 extract_calls, exit_code, stdout>>
  /\ UNCHANGED nvars

\* the loop body without the blank-page test
txt_extract_page_all_pages ==
  /\ variant = "extract_pdf_text" /\ pc = "loop"
  /\ page_num < Len(doc_pages)
  /\ \/ LET page_text == doc_pages[page_num + 1]
        IN  /\ IF TRUE
               THEN text_parts' = Append(text_parts,
                      <<45, 45, 45, 32, 80, 97, 103, 101, 32>>
                        \o str_int(page_num + 1) \o <<32, 45, 45, 45, 10>>
                        \o clean_unicode_text(page_text))
               ELSE UNCHANGED text_parts
            /\ page_num' = page_num + 1
            /\ UNCHANGED <<pc, result, raised, stderr>>
     \/ \E msg \in ExcMessages, at \in {"load_page", "get_text"} :
          /\ raised' = [at |-> at, msg |-> msg]
          /\ stderr' = Append(stderr, txt_error_line(msg))
          /\ result' = [text |-> <<>>]
          /\ pc' = "returned"
          /\ UNCHANGED <<text_parts, page_num>>
  /\ UNCHANGED <<inputs, full_text, page_texts, metadata, pdf_path, handle,
                 open_calls, extract_calls, exit_code, stdout>>
  /\ UNCHANGED nvars

\* one iteration of the page loop
txt_extract_page ==
  /\ variant = "extract_pdf_text" /\ pc = "loop"
  /\ page_num < Len(doc_pages)
  /\ \/ LET page_text == doc_pages[page_num + 1]
        IN  /\ IF strip(page_text) # <<>>
               THEN text_parts' = Append(text_parts,
                      <<45, 45, 45, 32, 80, 97, 103, 101, 32>>
                        \o str_int(page_num + 1) \o <<32, 45, 45, 45, 10>>
                        \o clean_unicode_text(page_text))
               ELSE UNCHANGED text_parts
            /\ page_num' = page_num + 1
            /\ UNCHANGED <<pc, result, raised, stderr>>
     \/ \E msg \in ExcMessages, at \in {"load_page", "get_text"} :
          /\ raised' = [at |-> at, msg |-> msg]
          /\ stderr' = Append(stderr, txt_error_line(msg))
          /\ result' = [text |-> <<>>]
          /\ pc' = "returned"
          /\ UNCHANGED <<text_parts, page_num>>
  /\ UNCHANGED <<inputs, full_text, page_texts, metadata, pdf_path, handle,
                 open_calls, extract_calls, exit_code, stdout>>
  /\ UNCHANGED nvars

\* after the loop: doc.close(), the parts joined and returned
txt_extract_finish ==
  /\ variant = "extract_pdf_text" /\ pc = "loop"
  /\ page_num = Len(doc_pages)
  /\ handle' = "closed"
  /\ full_text' = join(<<10, 10>>, text_parts)
  /\ result' = [text |-> full_text']
  /\ pc' = "returned"
  /\ UNCHANGED <<inputs, page_num, page_texts, text_parts, metadata, pdf_path,
                 open_calls, extract_calls, raised, exit_code, stdout, stderr>>
  /\ UNCHANGED nvars

\* __main__: print the text, or report the failure and exit 1
txt_main_print ==
  /\ variant = "extract_pdf_text" /\ pc = "returned"
  /\ IF result.text # <<>>
     THEN /\ stdout' = Append(stdout, result.text)
          /\ exit_code' = 0
          /\ UNCHANGED stderr
     ELSE /\ stderr' = Append(stderr, "Failed to extract text from PDF")
          /\ exit_code' = 1
          /\ UNCHANGED stdout
  /\ pc' = "exit"
  /\ UNCHANGED <<inputs, locals, pdf_path, handle, open_calls, extract_calls,
                 result, raised>>
  /\ UNCHANGED nvars

(***************************************************************************)
(* The scripts                                                             *)
(***************************************************************************)
Variants == {"pymupdf_extractor", "pdf_extractor", "extract_pdf_text"}

Init ==
  /\ NIdle
  /\ variant \in Variants
  /\ args \in SeqsUpTo(Paths, MaxArgs)
  /\ fs \in SUBSET Paths
  /\ doc_pages \in SeqsUpTo(PageTexts, MaxPages)
  /\ doc_meta \in DocMetas
  /\ EStart

Next ==
  \/ pymupdf_main_args
  \/ pymupdf_extract_open
  \/ pymupdf_extract_metadata
  \/ pymupdf_extract_page
  \/ pymupdf_extract_finish
  \/ pymupdf_main_print
  \/ pdfx_main_args
  \/ pdfx_extract_open
  \/ pdfx_extract_page
  \/ pdfx_extract_finish
  \/ pdfx_main_print
  \/ txt_main_args
  \/ txt_extract_open
  \/ txt_extract_page
  \/ txt_extract_finish
  \/ txt_main_print

Spec == Init /\ [][Next]_vars

(***************************************************************************)
(* Properties of clean_unicode_text (checked under SpecClean)              *)
(***************************************************************************)
IsKey(c) == \E k \in 1..Len(replacements) : replacements[k][1] = c

SubstituteOf(c) ==
  replacements[CHOOSE k \in 1..Len(replacements) : replacements[k][1] = c][2]

InRange(c) == c \in (0..127) \cup (160..255)

Before(s, i) == SubSeq(s, 1, i - 1)
After(s, i) == SubSeq(s, i + 1, Len(s))

Reverse(s) == [i \in 1..Len(s) |-> s[Len(s) + 1 - i]]

\* C1: every code point of the string clean_unicode_text returns lies in
\* [0,127] or [160,255], whatever the input characters are.
Thm_C1_OutputRange ==
  npc # "input" => \A i \in 1..Len(cleaned) : InRange(cleaned[i])

\* an input with a C1 control and a letter decomposing above 255 was cleaned
Wit_C1_OutputRange ==
  /\ npc = "cleaned"
  /\ \E i, j \in 1..Len(text) : text[i] = 133 /\ text[j] = 8486
  /\ Len(cleaned) = Len(text)

\* C7: at every position holding a key of the replacement table the output
\* carries exactly the key's substitute, between the outputs of the text
\* before and after it, and applying the table in the opposite order gives
\* the same output.
Thm_C7_TableSubstitute ==
  npc = "cleaned" =>
    /\ \A i \in 1..Len(text) :
         IsKey(text[i]) =>
           cleaned = clean_unicode_text(Before(text, i))
                       \o SubstituteOf(text[i])
                       \o clean_unicode_text(After(text, i))
    /\ clean_with(text, Reverse(replacements)) = cleaned

\* a private-use key between two other rewritten characters was cleaned
Wit_C7_TableSubstitute ==
  /\ npc = "cleaned"
  /\ Len(text) = 3
  /\ text[2] = 61572
  /\ ~InRange(text[1]) /\ IsKey(text[3])
  /\ cleaned[Len(cleaned) - 1] = 32

\* C8: cleaning the cleaned text again returns it unchanged.
Thm_C8_Idempotent ==
  npc = "recleaned" => recleaned = cleaned

\* the first pass rewrote a table key, a decomposed letter and a space
\* fallback, and the second pass has run
Wit_C8_Idempotent ==
  /\ npc = "recleaned"
  /\ cleaned # text
  /\ \E i, j, k \in 1..Len(text) :
       IsKey(text[i]) /\ text[j] = 257 /\ text[k] = 20013

\* the ordered fallback of the per-character pass as the claim states it
IsFallbackCase(c) == ~IsKey(c) /\ ~InRange(c)

AsciiRemainder(c) == SelectSeq(NFKD(c), LAMBDA d : d \in 0..127)

FallbackOf(c) ==
  IF major(category(c)) \in {"L", "N", "P", "S", "Z"}
  THEN IF Len(NFKD(c)) = 1 /\ NFKD(c)[1] \in 0..255
       THEN <<NFKD(c)[1]>>
       ELSE IF AsciiRemainder(c) = <<>> THEN <<32>> ELSE AsciiRemainder(c)
  ELSE <<32>>

\* C10: a character that is not a table key and lies outside [0,127] and
\* [160,255] is rewritten by the ordered fallback: its single-code-point
\* decomposition below 256, else the ASCII remainder of its decomposition or
\* one space if that is empty (letters, numbers, punctuation, symbols,
\* separators), one space for any other category.
Thm_C10_Fallback ==
  npc = "cleaned" =>
    \A i \in 1..Len(text) :
      IsFallbackCase(text[i]) =>
        cleaned = clean_unicode_text(Before(text, i))
                    \o FallbackOf(text[i])
                    \o clean_unicode_text(After(text, i))

\* the three outcomes in one input: U+FFE1 gives U+00A3, U+0101 gives 'a',
\* U+200B gives a space
Wit_C10_Fallback ==
  /\ npc = "cleaned"
  /\ text = <<65505, 257, 8203>>
  /\ cleaned = <<163, 97, 32>>

(***************************************************************************)
(* Properties of the extraction entry points (checked under Spec)          *)
(***************************************************************************)
Returned == pc \in {"returned", "exit"} /\ extract_calls = 1

JsonVariant == variant \in {"pymupdf_extractor", "pdf_extractor"}

IsSubstring(sub, s) ==
  \E i \in 0..(Len(s) - Len(sub)) : SubSeq(s, i + 1, i + Len(sub)) = sub

Field(r, f) == f \in DOMAIN r

\* C2: once the document handle has been opened, it is closed on every exit
\* path before the entry point returns, whether extraction succeeds or the
\* collaborator raises after the open.
Cex_C2_HandleClosed ==
  Returned => handle # "open"

\* C3: for every entry point, a path that does not exist gives a failure
\* result (success false, error containing the path) and fitz.open is never
\* invoked.
Cex_C3_MissingFile ==
  (Returned /\ pdf_path \notin fs) =>
    /\ Field(result, "success") /\ result.success = FALSE
    /\ Field(result, "error") /\ IsSubstring(pdf_path, result.error)
    /\ open_calls = 0

\* C3 amended: for the two JSON entry points a path that does not exist
\* gives success false, an error containing the path, and no fitz.open call;
\* extract_pdf_text.py has no existence check, calls fitz.open and returns
\* the empty string when that raises.
Thm_C3_MissingFile ==
  (Returned /\ pdf_path \notin fs) =>
    IF JsonVariant
    THEN /\ result.success = FALSE
         /\ IsSubstring(pdf_path, result.error)
         /\ result.text = <<>> /\ result.metadata = <<>>
         /\ open_calls = 0 /\ handle = "none"
    ELSE /\ open_calls = 1
         /\ result = [text |-> <<>>]

\* pymupdf_extractor returned for a path that is not on disk
Wit_C3_MissingFile ==
  /\ variant = "pymupdf_extractor" /\ pc = "returned"
  /\ pdf_path \notin fs /\ fs # {}
  /\ result.success = FALSE /\ open_calls = 0

\* C4: when the collaborator raises, the JSON entry points return success
\* false, a non-empty error string, empty text, empty metadata and an empty
\* pages sequence, with nothing collected before the failure.
Cex_C4_FailureResult ==
  (Returned /\ JsonVariant /\ raised.at # "none") =>
    /\ result.success = FALSE
    /\ result.error # <<>>
    /\ result.text = <<>>
    /\ result.metadata = <<>>
    /\ Field(result, "pages") /\ result.pages = <<>>

PdfxPrefix ==
  <<80, 68, 70, 32, 101, 120, 116, 114, 97, 99, 116, 105, 111, 110, 32, 102,
    97, 105, 108, 101, 100, 58, 32>>

\* C4 amended: when the collaborator raises, the JSON entry points return
\* success false, empty text and empty metadata. pymupdf_extractor's error
\* is the exception's message (empty when the message is empty) and its
\* pages sequence is empty; pdf_extractor's error is "PDF extraction
\* failed: " followed by the message and its result has no pages field.
Thm_C4_FailureResult ==
  (Returned /\ JsonVariant /\ raised.at # "none") =>
    /\ result.success = FALSE
    /\ result.text = <<>>
    /\ result.metadata = <<>>
    /\ IF variant = "pymupdf_extractor"
       THEN /\ result.error = raised.msg
            /\ DOMAIN result = {"success", "error", "text", "metadata", "pages"}
            /\ result.pages = <<>>
       ELSE /\ result.error = PdfxPrefix \o raised.msg
            /\ DOMAIN result = {"success", "error", "text", "metadata"}

\* get_text raised on the second page, after a non-empty first page was read
Wit_C4_FailureResult ==
  /\ variant = "pymupdf_extractor" /\ pc = "returned"
  /\ raised.at = "get_text" /\ page_num = 1
  /\ full_text # <<>> /\ Len(page_texts) = 1
  /\ result.pages = <<>>

\* C5: with a number of arguments other than one, every script exits with a
\* non-zero code at once and never calls the extraction function.
Cex_C5_UsageExit ==
  Len(args) # 1 =>
    /\ extract_calls = 0
    /\ pc # "start" => (pc = "exit" /\ exit_code > 0)

\* a one-page document whose text is ASCII without leading or trailing
\* whitespace
SinglePageAscii ==
  /\ Len(doc_pages) = 1
  /\ encode_ascii_ignore(doc_pages[1]) = doc_pages[1]
  /\ strip(doc_pages[1]) = doc_pages[1]

\* C6: for such a document the successful result has pageCount 1,
\* totalCharacters equal to the length of the text, and one page record
\* with pageNumber 1, that text and its length as charCount.
Cex_C6_SinglePage ==
  (Returned /\ JsonVariant /\ result.success /\ SinglePageAscii) =>
    /\ result.metadata.pageCount = 1
    /\ result.totalCharacters = Len(doc_pages[1])
    /\ Field(result, "pages")
    /\ result.pages = << [pageNumber |-> 1, text |-> doc_pages[1],
                          charCount |-> Len(doc_pages[1])] >>

\* C6 amended: for such a document both JSON entry points report pageCount
\* 1. pymupdf_extractor returns one page record (pageNumber 1, the text, its
\* length), and totalCharacters counts the page marker too: the length of
\* the text plus 15, or 14 when the text is empty. pdf_extractor returns
\* totalCharacters equal to the length of the text and metadata.pages
\* holding the text itself.
Thm_C6_SinglePage ==
  (Returned /\ JsonVariant /\ result.success /\ SinglePageAscii) =>
    /\ result.metadata.pageCount = 1
    /\ IF variant = "pymupdf_extractor"
       THEN /\ result.pages = << [pageNumber |-> 1, text |-> doc_pages[1],
                                  charCount |-> Len(doc_pages[1])] >>
            /\ result.totalCharacters =
                 IF doc_pages[1] = <<>> THEN 14 ELSE Len(doc_pages[1]) + 15
            /\ Len(result.text) = result.totalCharacters
       ELSE /\ result.totalCharacters = Len(doc_pages[1])
            /\ result.text = doc_pages[1]
            /\ result.metadata.pages = << doc_pages[1] >>

\* pymupdf_extractor returned for the one-page document "Hello"
Wit_C6_SinglePage ==
  /\ variant = "pymupdf_extractor" /\ pc = "returned" /\ result.success
  /\ doc_pages = << <<72, 101, 108, 108, 111>> >>
  /\ result.totalCharacters = 20

\* the page-boundary marker of page n, by script
Marker(n) ==
  IF variant = "extract_pdf_text"
  THEN <<45, 45, 45, 32, 80, 97, 103, 101, 32, 48 + n, 32, 45, 45, 45, 10>>
  ELSE <<61, 61, 61, 32, 80, 65, 71, 69, 32, 48 + n, 32, 61, 61, 61, 10>>

\* the successful extractions that assemble a marked document text
Assembled ==
  /\ Returned /\ variant \in {"extract_pdf_text", "pymupdf_extractor"}
  /\ handle = "closed"

\* first position at which sub occurs in s
Position(sub, s) ==
  CHOOSE i \in 0..(Len(s) - Len(sub)) :
    /\ SubSeq(s, i + 1, i + Len(sub)) = sub
    /\ \A j \in 0..(i - 1) : SubSeq(s, j + 1, j + Len(sub)) # sub

\* C9: in the assembled text every page contributes its marker immediately
\* followed by its text, in increasing page order, whatever the page's text.
Cex_C9_PageMarkers ==
  Assembled =>
    /\ \A n \in 1..Len(doc_pages) :
         IsSubstring(Marker(n) \o doc_pages[n], result.text \o <<10>>)
    /\ \A n \in 1..(Len(doc_pages) - 1) :
         Position(Marker(n), result.text \o <<10>>)
           < Position(Marker(n + 1), result.text \o <<10>>)

RECURSIVE TxtPieces(_, _)
\* extract_pdf_text.py: one piece per page that is not blank, from page n on
TxtPieces(pages, n) ==
  IF n > Len(pages) THEN <<>>
  ELSE (IF \A k \in 1..Len(pages[n]) : isspace(pages[n][k])
        THEN <<>>
        ELSE << Marker(n) \o clean_unicode_text(pages[n]) >>)
         \o TxtPieces(pages, n + 1)

RECURSIVE Flatten(_)
Flatten(ss) == IF ss = <<>> THEN <<>> ELSE Head(ss) \o Flatten(Tail(ss))

\* C9 amended: extract_pdf_text.py gives a marker only to the pages whose
\* text is not blank, each marker immediately followed by the page's cleaned
\* text, the pieces in increasing page order and separated by a blank line.
\* pymupdf_extractor gives every page a marker followed by the page's text
\* and a newline, in increasing page order; the assembled text is that
\* concatenation stripped of surrounding whitespace and then of every
\* non-ASCII character.
Thm_C9_PageMarkers ==
  Assembled =>
    IF variant = "extract_pdf_text"
    THEN LET pieces == TxtPieces(doc_pages, 1)
         IN  /\ result.text =
                  Flatten([k \in 1..Len(pieces) |->
                             IF k = 1 THEN pieces[k] ELSE <<10, 10>> \o pieces[k]])
             /\ \A n \in 1..Len(doc_pages) :
                  strip(doc_pages[n]) = <<>> => ~IsSubstring(Marker(n), result.text)
    ELSE result.text =
           SelectSeq(
             strip(Flatten([n \in 1..Len(doc_pages) |->
                              <<10>> \o Marker(n) \o doc_pages[n] \o <<10>>])),
             LAMBDA c : c \in 0..127)

\* extract_pdf_text.py returned for a blank first page and a second page
\* whose text the normalizer rewrote
Wit_C9_PageMarkers ==
  /\ variant = "extract_pdf_text" /\ pc = "returned" /\ handle = "closed"
  /\ doc_pages = << <<32>>, <<8217, 10>> >>
  /\ result.text = <<45, 45, 45, 32, 80, 97, 103, 101, 32, 50, 32, 45, 45, 45,
                     10, 39, 10>>

====
